---- MODULE Spec2Model ----
(***************************************************************************)
(* A model of src/Recipe.py, the Streamlit recipe viewer: the handler      *)
(* main() of one 'Fetch Recipe' click as a state machine, and the pure     *)
(* helpers (normalize_ingredient_name, parse_nutrition_value,              *)
(* extract_nutrition_facts, the cost formatting of main) as operators.     *)
(*                                                                         *)
(* Representation.  A Python str that the code only passes along is a TLA+ *)
(* string.  A str the code scans (regular expressions, "in", lower) is a   *)
(* sequence of one-character strings.  A completion text of the language   *)
(* model is a sequence of lexical tokens.  A JSON / Python value is a      *)
(* record tagged by t: "null" (None), "bool", "num", "str", "arr", "obj".  *)
(* A number is kept exactly, as a count of eighths (e8): every such value  *)
(* is a binary float without rounding error.                               *)
(***************************************************************************)
EXTENDS Integers, Sequences, FiniteSets, TLC

VARIABLES
    pc,               \* position of main() in the handling of one click
    status_code,      \* response.status_code seen by fetch_recipe (0: none yet)
    recipe,           \* the local recipe of main
    calls,            \* the outbound calls, in order: issue and return events
    errors,           \* the st.error / st.sidebar.error messages, in order
    rendered,         \* the page sections written so far
    display,          \* label -> text written by the rendered sections
    nutrition,        \* the dict built by extract_nutrition_facts
    original_map,     \* the dict built by build_ingredient_original_map
    result,           \* the local result of main (the cost completion)
    nutrition_cost,   \* the dict of the total-recipe metrics, once formatted
    step_amounts_map, \* the local step_amounts_map of main
    step_display,     \* per rendered step, what its ingredient line shows
    fault,            \* the uncaught exception that ended main ("" if none)
    name,             \* normalize_ingredient_name: its argument
    norm,             \* normalize_ingredient_name: its result
    renorm,           \* normalize_ingredient_name: its result on norm
    chunks,           \* how the summary under test was put together
    summary,          \* extract_nutrition_facts: its argument
    estimate,         \* the cost formatting: the parsed estimate it is given
    formatted         \* the cost formatting: the dict it leaves

mainVars == <<pc, status_code, recipe, calls, errors, rendered, display,
              original_map, result, nutrition_cost, step_amounts_map,
              step_display, fault>>
mainVarsButPc == <<status_code, recipe, calls, errors, rendered, display,
                   original_map, result, nutrition_cost, step_amounts_map,
                   step_display, fault>>
normVars == <<name, norm, renorm>>
factVars == <<chunks, summary>>
costVars == <<estimate, formatted>>
vars == <<mainVars, nutrition, normVars, factVars, costVars>>

---------------------------------------------------------------------------
(* Bounds of the model.                                                    *)

MaxServings == 2
MaxLen == 3
MaxSpans == 3
MaxEighths == 104

---------------------------------------------------------------------------
(* Python values.                                                          *)

PyNone == [t |-> "null"]
PyBool(b) == [t |-> "bool", v |-> b]
PyNum(e) == [t |-> "num", e8 |-> e]
PyInt(n) == PyNum(8 * n)
PyStr(cs) == [t |-> "str", v |-> cs]
PyList(s) == [t |-> "arr", v |-> s]
PyDict(f) == [t |-> "obj", v |-> f]
EmptyDict == PyDict(<<>>)
Pending == [t |-> "pending"]

\* bool(v): the truth value Python's "if v:" tests
Truthy(v) ==
    CASE v.t = "null" -> FALSE
      [] v.t = "bool" -> v.v
      [] v.t = "num" -> v.e8 # 0
      [] v.t = "str" -> Len(v.v) > 0
      [] v.t = "arr" -> Len(v.v) > 0
      [] v.t = "obj" -> DOMAIN v.v # {}
      [] OTHER -> FALSE

HasKey(d, k) == k \in DOMAIN d

\* d.get(k, default)
Get(d, k, default) == IF k \in DOMAIN d THEN d[k] ELSE default

RECURSIVE Digits(_)
\* the decimal digits of a natural number, most significant first
Digits(n) ==
    LET d == <<"0", "1", "2", "3", "4", "5", "6", "7", "8", "9">>[(n % 10) + 1]
    IN  IF n < 10 THEN <<d>> ELSE Append(Digits(n \div 10), d)

RECURSIVE Concat(_)
\* "".join(cs) of a sequence of strings
Concat(cs) == IF cs = <<>> THEN "" ELSE Head(cs) \o Concat(Tail(cs))

RECURSIVE JoinWith(_, _)
\* sep.join(parts)
JoinWith(sep, parts) ==
    IF parts = <<>> THEN ""
    ELSE IF Len(parts) = 1 THEN parts[1]
    ELSE parts[1] \o sep \o JoinWith(sep, Tail(parts))

\* str(n) of an int
StrInt(n) == Concat(Digits(n))

\* whether needle occurs in hay (Python's "needle in hay" on two str)
IsSubstring(needle, hay) ==
    \E i \in 0..(Len(hay) - Len(needle)) :
        \A j \in 1..Len(needle) : hay[i + j] = needle[j]

---------------------------------------------------------------------------
(* Characters.  "U+0130" is LATIN CAPITAL LETTER I WITH DOT ABOVE, a       *)
(* letter whose str.lower() is the two characters "i" and "U+0307"         *)
(* (COMBINING DOT ABOVE, a mark: neither \w nor \s).                       *)

UpperCase == <<"A", "B", "C", "D", "E", "F", "G", "H", "I", "J", "K", "L", "M",
               "N", "O", "P", "Q", "R", "S", "T", "U", "V", "W", "X", "Y", "Z">>
LowerCase == <<"a", "b", "c", "d", "e", "f", "g", "h", "i", "j", "k", "l", "m",
               "n", "o", "p", "q", "r", "s", "t", "u", "v", "w", "x", "y", "z">>
Range(s) == {s[i] : i \in DOMAIN s}

IsDigit(c) == c \in {"0", "1", "2", "3", "4", "5", "6", "7", "8", "9"}
IsLetter(c) == c \in Range(UpperCase) \cup Range(LowerCase) \cup {"U+0130"}
\* the class \w of re on a str pattern: alphanumerics and the underscore
IsWord(c) == IsLetter(c) \/ IsDigit(c) \/ c = "_"
\* the class \s, which is also what str.strip() removes
IsSpace(c) == c \in {" ", "\t", "\n"}

\* str.lower() of one character
LowerChar(c) ==
    IF c = "U+0130" THEN <<"i", "U+0307">>
    ELSE IF c \in Range(UpperCase)
         THEN <<LowerCase[CHOOSE i \in DOMAIN UpperCase : UpperCase[i] = c]>>
         ELSE <<c>>

RECURSIVE Lower(_)
\* str.lower()
Lower(s) == IF s = <<>> THEN <<>> ELSE LowerChar(Head(s)) \o Lower(Tail(s))

RECURSIVE LStrip(_)
LStrip(s) == IF s # <<>> /\ IsSpace(Head(s)) THEN LStrip(Tail(s)) ELSE s

RECURSIVE RStrip(_)
RStrip(s) ==
    IF s # <<>> /\ IsSpace(s[Len(s)]) THEN RStrip(SubSeq(s, 1, Len(s) - 1)) ELSE s

\* str.strip()
Strip(s) == RStrip(LStrip(s))

---------------------------------------------------------------------------
(* normalize_ingredient_name                                               *)

\* name.replace("-", " ")
ReplaceHyphens(s) == [i \in DOMAIN s |-> IF s[i] = "-" THEN " " ELSE s[i]]

\* re.sub(r"[^\w\s]", "", name)
RemovePunctuation(s) == SelectSeq(s, LAMBDA c : IsWord(c) \/ IsSpace(c))

RECURSIVE CollapseSpaces(_)
\* re.sub(r"\s+", " ", name)
CollapseSpaces(s) ==
    IF s = <<>> THEN <<>>
    ELSE IF IsSpace(Head(s)) THEN <<" ">> \o CollapseSpaces(LStrip(s))
    ELSE <<Head(s)>> \o CollapseSpaces(Tail(s))

normalize_ingredient_name(s) ==
    Lower(Strip(CollapseSpaces(RemovePunctuation(ReplaceHyphens(s)))))

---------------------------------------------------------------------------
(* parse_nutrition_value and extract_nutrition_facts                       *)

RECURSIVE DigitRunEnd(_, _)
\* the last index of the run of digits of text that starts at i
DigitRunEnd(text, i) ==
    IF i < Len(text) /\ IsDigit(text[i + 1]) THEN DigitRunEnd(text, i + 1) ELSE i

\* re.search(r"(\d+(\.\d+)?)(g)?", text): the leftmost digit starts the match
parse_nutrition_value(text) ==
    LET starts == {i \in DOMAIN text : IsDigit(text[i])}
    IN  IF starts = {} THEN text
        ELSE LET i == CHOOSE k \in starts : \A m \in starts : k <= m
                 j == DigitRunEnd(text, i)
                 k == IF j + 2 <= Len(text) /\ text[j + 1] = "."
                         /\ IsDigit(text[j + 2])
                      THEN DigitRunEnd(text, j + 2) ELSE j
                 is_g == k < Len(text) /\ text[k + 1] = "g"
             IN  SubSeq(text, i, k) \o (IF is_g THEN <<"g">> ELSE <<>>)

\* the first index >= from at which pat occurs in s, 0 if there is none
FindFrom(pat, s, from) ==
    LET at == {i \in from..(Len(s) - Len(pat) + 1) :
                  \A j \in 1..Len(pat) : s[i + j - 1] = pat[j]}
    IN  IF at = {} THEN 0 ELSE CHOOSE i \in at : \A m \in at : i <= m

BoldOpen == <<"<", "b", ">">>
BoldClose == <<"<", "/", "b", ">">>

RECURSIVE FindBold(_, _)
\* re.findall(r"<b>(.*?)</b>", summary) from index from on: the shortest span
\* from each opening tag, "." matching no newline
FindBold(s, from) ==
    LET i == FindFrom(BoldOpen, s, from)
        j == IF i = 0 THEN 0 ELSE FindFrom(BoldClose, s, i + 3)
    IN  IF i = 0 \/ j = 0 THEN <<>>
        ELSE IF \E k \in (i + 3)..(j - 1) : s[k] = "\n" THEN FindBold(s, i + 1)
        ELSE <<SubSeq(s, i + 3, j - 1)>> \o FindBold(s, j + 4)

\* nutrition[key] = value
StoreFactKeepFirst(nutr, key, value) == nutr @@ (key :> value)
StoreFact(nutr, key, value) == (key :> value) @@ nutr

\* one pass of the loop "for text in bold_texts"
RouteFact(nutr, text) ==
    LET lower_text == Lower(text)
    IN  IF IsSubstring(<<"c", "a", "l", "o", "r", "i", "e", "s">>, lower_text)
        THEN StoreFact(nutr, "Calories", parse_nutrition_value(text))
        ELSE IF IsSubstring(<<"p", "r", "o", "t", "e", "i", "n">>, lower_text)
        THEN StoreFact(nutr, "Protein", parse_nutrition_value(text))
        ELSE IF IsSubstring(<<"f", "a", "t">>, lower_text)
        THEN StoreFact(nutr, "Fat", parse_nutrition_value(text))
        ELSE nutr

RECURSIVE RouteAll(_, _)
RouteAll(nutr, texts) ==
    IF texts = <<>> THEN nutr ELSE RouteAll(RouteFact(nutr, Head(texts)), Tail(texts))

extract_nutrition_facts(s) == RouteAll(<<>>, FindBold(s, 1))

---------------------------------------------------------------------------
(* The cost formatting of main: f"${float(x):.2f}"                         *)

RECURSIVE DigitsValue(_)
\* int(cs) of a str of decimal digits
DigitsValue(cs) ==
    IF cs = <<>> THEN 0
    ELSE 10 * DigitsValue(SubSeq(cs, 1, Len(cs) - 1))
         + (CHOOSE d \in 0..9 : Digits(d) = <<cs[Len(cs)]>>)

\* float(v): the value, or the exception it raises
PyFloat(v) ==
    CASE v.t = "num" -> [ok |-> TRUE, e8 |-> v.e8]
      [] v.t = "bool" -> [ok |-> TRUE, e8 |-> IF v.v THEN 8 ELSE 0]
      [] v.t = "str" ->
            \* a str of digits is its value; one holding any other character is
            \* here a str that float() rejects (no sign, point or exponent is
            \* among the texts of this model)
            IF v.v # <<>> /\ \A i \in DOMAIN v.v : IsDigit(v.v[i])
            THEN [ok |-> TRUE, e8 |-> 8 * DigitsValue(v.v)]
            ELSE [ok |-> FALSE, exc |-> "ValueError"]
      [] OTHER -> [ok |-> FALSE, exc |-> "TypeError"]

\* the cents of format(e8/8, ".2f"): the exact value, correctly rounded, a tie
\* going to the even neighbour
RoundCentsHalfUp(e8) == (e8 * 125 + 5) \div 10
RoundCents(e8) ==
    LET q == (e8 * 125) \div 10
        r == (e8 * 125) % 10
    IN  IF r > 5 \/ (r = 5 /\ q % 2 = 1) THEN q + 1 ELSE q

\* "$" and the cents as <dollars>.<two digits>
DollarText(cents) ==
    "$" \o StrInt(cents \div 100) \o "."
        \o StrInt((cents % 100) \div 10) \o StrInt(cents % 10)

FormatCost(e8) == DollarText(RoundCents(e8))

---------------------------------------------------------------------------
(* The completion texts of the language model, as sequences of tokens, and *)
(* their sanitizing: str.strip, the two re.sub of the code fences, and     *)
(* json.loads.                                                             *)

\* the token of three backquotes that opens or closes a fenced block
Fence == "<fence>"
CostBody ==
    "\"calories\":500,\"protein\":20,\"fat\":10,\"total_cost\":12.5,\"price_per_serving\":3.125"
CostBodyText == "\"total_cost\":\"abc\""
CostBodyPartial == "\"calories\":500"
StepBody == "\"1\":{\"sea salt\":\"1 tsp\"}"
StepBodyFlat == "\"1\":\"1 tsp\""

\* tokens made of letters only: what [a-zA-Z]* takes after an opening fence
IsAlphaToken(tok) == tok \in {"json", "null", "true", "Sorry"}

RECURSIVE DropAlpha(_)
DropAlpha(toks) ==
    IF toks # <<>> /\ IsAlphaToken(Head(toks)) THEN DropAlpha(Tail(toks)) ELSE toks

\* re.sub(r"^```[a-zA-Z]*\n?", "", text)
StripFenceOpen(toks) ==
    IF toks # <<>> /\ Head(toks) = Fence
    THEN LET rest == DropAlpha(Tail(toks))
         IN  IF rest # <<>> /\ Head(rest) = "\n" THEN Tail(rest) ELSE rest
    ELSE toks

\* re.sub(r"```$", "", text): $ is the end, or just before a final newline
StripFenceClose(toks) ==
    LET n == Len(toks)
    IN  IF n >= 1 /\ toks[n] = Fence THEN SubSeq(toks, 1, n - 1)
        ELSE IF n >= 2 /\ toks[n] = "\n" /\ toks[n - 1] = Fence
        THEN Append(SubSeq(toks, 1, n - 2), "\n")
        ELSE toks

\* text.startswith("{") and text.endswith("}")
StartsWithBrace(toks) == toks # <<>> /\ Head(toks) = "{"
EndsWithBrace(toks) == toks # <<>> /\ toks[Len(toks)] \in {"}", StepBody}

IsMemberToken(tok) ==
    tok \in {CostBody, CostBodyText, CostBodyPartial, StepBody, StepBodyFlat}

\* the members a member token stands for
MemberValue(tok) ==
    CASE tok = CostBody ->
            ("calories" :> PyInt(500)) @@ ("protein" :> PyInt(20))
              @@ ("fat" :> PyInt(10)) @@ ("total_cost" :> PyNum(100))
              @@ ("price_per_serving" :> PyNum(25))
      [] tok = CostBodyText -> ("total_cost" :> PyStr(<<"a", "b", "c">>))
      [] tok = CostBodyPartial -> ("calories" :> PyInt(500))
      [] tok = StepBody ->
            ("1" :> PyDict("sea salt" :> PyStr(<<"1", " ", "t", "s", "p">>)))
      [] tok = StepBodyFlat -> ("1" :> PyStr(<<"1", " ", "t", "s", "p">>))

IsScalarToken(tok) == tok \in {"5", "0", "\"step 1\"", "[\"1\"]", "null", "true"}

\* the value a one-token JSON text stands for
ScalarValue(tok) ==
    CASE tok = "5" -> PyInt(5)
      [] tok = "0" -> PyInt(0)
      [] tok = "\"step 1\"" -> PyStr(<<"s", "t", "e", "p", " ", "1">>)
      [] tok = "[\"1\"]" -> PyList(<<PyStr(<<"1">>)>>)
      [] tok = "null" -> PyNone
      [] tok = "true" -> PyBool(TRUE)

\* json.loads(text): the value, or the JSONDecodeError it raises.  Whitespace
\* between tokens is insignificant; an object holds at most one member token.
JsonLoads(toks) ==
    LET t == SelectSeq(toks, LAMBDA k : ~IsSpace(k))
        bad == [ok |-> FALSE, exc |-> "JSONDecodeError"]
    IN  IF Len(t) = 1 /\ IsScalarToken(t[1])
        THEN [ok |-> TRUE, value |-> ScalarValue(t[1])]
        ELSE IF t = <<"{", "}">> THEN [ok |-> TRUE, value |-> EmptyDict]
        ELSE IF Len(t) = 3 /\ t[1] = "{" /\ t[3] = "}" /\ IsMemberToken(t[2])
        THEN [ok |-> TRUE, value |-> PyDict(MemberValue(t[2]))]
        ELSE bad

\* what client.chat.completions.create can do: raise, or return a text
Raise(exc) == [raised |-> TRUE, exc |-> exc, text |-> <<>>]
Return(text) == [raised |-> FALSE, exc |-> "", text |-> text]

Fenced(body) == <<Fence, "json", "\n">> \o body \o <<"\n", Fence>>

CostTexts ==
    { <<"{", CostBody, "}">>,
      Fenced(<<"{", CostBody, "}">>),
      <<"{", CostBodyPartial, "}", "\n">>,
      <<"{", CostBodyText, "}">>,
      <<"{", "Sorry", "}">>,
      <<"Sorry">>,
      <<>>,
      <<" ", "\n">>,
      Fenced(<<>>) }

StepTexts ==
    { <<"{", StepBody, "}">>,
      Fenced(<<"{", " ", StepBody, "}">>),
      <<"{", StepBodyFlat, "}">>,
      <<"{", "}">>,
      <<"5">>,
      <<"\"step 1\"">>,
      <<"[\"1\"]">>,
      <<"null">>,
      <<"Sorry">>,
      <<>>,
      Fenced(<<>>) }

LlmOutcomes(texts) == {Raise("APIConnectionError")} \cup {Return(t) : t \in texts}

---------------------------------------------------------------------------
(* The Recipe records the extraction service can answer with.              *)

Keys == {"title", "image", "readyInMinutes", "servings", "pricePerServing",
         "summary", "extendedIngredients", "analyzedInstructions"}

StatusCodes == {200, 201, 404, 500}

Bold(text) == BoldOpen \o text \o BoldClose
Calories447 == <<"4", "4", "7", " ", "c", "a", "l", "o", "r", "i", "e", "s">>
Protein8g == <<"8", "g", " ", "o", "f", " ", "p", "r", "o", "t", "e", "i", "n">>
Fat38g == <<"3", "8", "g", " ", "o", "f", " ", "f", "a", "t">>
Calories90 == <<"9", "0", " ", "C", "a", "l", "o", "r", "i", "e", "s">>
Fat2g == <<"2", ".", "5", "g", " ", "F", "a", "t">>
FatCalories == <<"f", "a", "t", " ", "c", "a", "l", "o", "r", "i", "e", "s", " ", "9">>
Vegan == <<"v", "e", "g", "a", "n">>

RecipeSummary == Bold(Calories447) \o <<",", " ">> \o Bold(Protein8g) \o Bold(Fat38g)

ExtendedIngredients ==
    << [name |-> <<"S", "e", "a", "-", "S", "a", "l", "t">>,
        original |-> "1 tsp sea-salt"],
       [name |-> <<"f", "l", "o", "u", "r">>, original |-> "2 cups flour"],
       [name |-> <<"s", "e", "a", " ", "s", "a", "l", "t", "!">>,
        original |-> "a pinch of sea salt"] >>

Pan == [name |-> "frying pan"]
Bowl == [name |-> "bowl"]
Salt == [name |-> "sea salt"]
Flour == [name |-> "flour"]

\* a step: its number and text, with or without its equipment and ingredients
Step(n, text, equipment, ingredients) ==
    ("number" :> n) @@ ("step" :> text) @@ equipment @@ ingredients
NoList == <<>>
Equipment(items) == ("equipment" :> items)
StepIngredients(items) == ("ingredients" :> items)

InstructionVariants ==
    << <<>>,
       << [steps |-> << Step(1, "Season the fish.", Equipment(<<Pan>>),
                             StepIngredients(<<Salt>>)) >>] >>,
       << [steps |-> << Step(1, "Mix.", NoList, StepIngredients(<<Salt, Flour>>)),
                        Step(2, "Rest.", NoList, NoList) >>] >>,
       << [steps |-> << Step(1, "Heat.", Equipment(<<Pan, Bowl>>), NoList) >>],
          [steps |-> << Step(1, "Fry.", Equipment(<<Pan>>),
                             StepIngredients(<<Flour>>)) >>] >> >>

\* the record with every field present
FullRecipe(s, i) ==
    ("title" :> "Salmon Cakes") @@ ("image" :> "https://img.example/salmon.jpg")
      @@ ("readyInMinutes" :> 45) @@ ("servings" :> s)
      @@ ("pricePerServing" :> 150) @@ ("summary" :> RecipeSummary)
      @@ ("extendedIngredients" :> ExtendedIngredients)
      @@ ("analyzedInstructions" :> InstructionVariants[i])

\* the record without the fields of absent
MakeRecipe(absent, s, i) ==
    PyDict([k \in Keys \ absent |-> FullRecipe(s, i)[k]])

---------------------------------------------------------------------------
(* The functions main calls.                                               *)

\* one st.error / st.sidebar.error: the function that shows it, and its text
Error(at, msg) == [at |-> at, msg |-> msg]

\* fetch_recipe, given the response's status code and JSON body
fetch_recipe_any_status(code, body) == [recipe |-> body, errors |-> <<>>]
fetch_recipe(code, body) ==
    IF code = 200
    THEN [recipe |-> body, errors |-> <<>>]
    ELSE [recipe |-> PyNone,
          errors |-> <<Error("fetch_recipe",
                             "Failed to fetch recipe. Please check the URL and try again.")>>]

RECURSIVE build_ingredient_original_map(_)
\* later ingredients overwrite earlier ones with the same normalized name
build_ingredient_original_map(extended_ingredients) ==
    IF extended_ingredients = <<>> THEN <<>>
    ELSE LET n == Len(extended_ingredients)
             ing == extended_ingredients[n]
         IN  (normalize_ingredient_name(ing.name) :> ing.original)
               @@ build_ingredient_original_map(SubSeq(extended_ingredients, 1, n - 1))

RECURSIVE Originals(_)
\* [ing["original"] for ing in extended_ingredients]
Originals(ings) ==
    IF ings = <<>> THEN <<>> ELSE <<Head(ings).original>> \o Originals(Tail(ings))

\* the prompt of calculate_nutrition_and_cost: servings is not interpolated
calculate_prompt(ingredients_text, servings) ==
    "Given the following ingredients with their quantities: " \o ingredients_text
      \o ", calculate the total nutrition facts (calories, protein in grams, fat in grams), "
      \o "the total cost (in USD) for the entire recipe, and the price per serving (in USD) "
      \o "assuming the recipe yields the provided number of servings. "
      \o "Return ONLY a valid JSON object with exactly the keys 'calories', 'protein', 'fat', "
      \o "'total_cost', and 'price_per_serving' with no additional text or formatting."

\* calculate_nutrition_and_cost, given what the completion call does
calculate_nutrition_and_cost(outcome) ==
    IF outcome.raised
    THEN [result |-> PyNone,
          errors |-> <<Error("calculate_nutrition_and_cost",
                             "Error calculating nutrition and cost: " \o outcome.exc)>>]
    ELSE [result |-> PyStr(Strip(outcome.text)), errors |-> <<>>]

RECURSIVE Flatten(_)
\* the steps of all instruction groups, in order
Flatten(instructions) ==
    IF instructions = <<>> THEN <<>>
    ELSE Head(instructions).steps \o Flatten(Tail(instructions))

RECURSIVE StepLines(_)
StepLines(steps) ==
    IF steps = <<>> THEN <<>>
    ELSE <<"Step " \o StrInt(Get(Head(steps), "number", 0)) \o ": "
             \o Get(Head(steps), "step", "")>> \o StepLines(Tail(steps))

\* the prompt of infer_step_ingredient_amounts
infer_prompt(r) ==
    "You are a cooking assistant. I have a recipe with instructions and a list of ingredients. "
      \o "The instructions do not specify exactly how much of each ingredient is used in each step. "
      \o "Using your best judgment, infer approximate step-by-step ingredient amounts. "
      \o "Only list ingredients that actually appear in that step. "
      \o "Return a JSON object mapping each step number (as a string) to an object with "
      \o "'ingredient name' : 'approximate amount' pairs. "
      \o "If an ingredient is not used in a step, do not list it for that step.\n\n"
      \o "Instructions:\n"
      \o JoinWith("\n", StepLines(Flatten(Get(r, "analyzedInstructions", <<>>))))
      \o "\n\nIngredients (with total amounts):\n"
      \o JoinWith("\n", Originals(Get(r, "extendedIngredients", <<>>)))
      \o "\n\nReturn ONLY valid JSON, no code fences, no extra explanation."

\* the text json.loads is given: strip, the two re.sub, strip
SanitizeStep(text) == Strip(StripFenceClose(StripFenceOpen(Strip(text))))

\* infer_step_ingredient_amounts, given what the completion call does: one
\* except clause reports an invocation failure and a parse failure alike
infer_step_ingredient_amounts(outcome) ==
    LET failed(exc) ==
            [map |-> PyNone,
             errors |-> <<Error("infer_step_ingredient_amounts",
                                "Error inferring step ingredient amounts: " \o exc)>>]
    IN  IF outcome.raised THEN failed(outcome.exc)
        ELSE LET data == JsonLoads(SanitizeStep(outcome.text))
             IN  IF data.ok THEN [map |-> data.value, errors |-> <<>>]
                 ELSE failed(data.exc)

---------------------------------------------------------------------------
(* The sections main renders.                                              *)

PyLabel(text) == [t |-> "label", s |-> text]

\* str(e8/8) of a number: an int when whole, else its exact decimal expansion
StrNum(e8) ==
    StrInt(e8 \div 8)
      \o (IF e8 % 8 = 0 THEN ""
          ELSE "." \o <<"125", "25", "375", "5", "625", "75", "875">>[e8 % 8])

\* str(v) of a value shown in a metric
ToText(v) ==
    CASE v.t = "num" -> StrNum(v.e8)
      [] v.t = "str" -> Concat(v.v)
      [] v.t = "label" -> v.s
      [] v.t = "null" -> "None"
      [] v.t = "bool" -> IF v.v THEN "True" ELSE "False"
      [] OTHER -> "<object>"

\* nutrition_cost[key] = f"${float(nutrition_cost[key]):.2f}" when key is there
FormatKey(d, key) ==
    IF key \notin DOMAIN d THEN [ok |-> TRUE, d |-> d]
    ELSE LET f == PyFloat(d[key])
         IN  IF f.ok THEN [ok |-> TRUE, d |-> [d EXCEPT ![key] = PyLabel(FormatCost(f.e8))]]
             ELSE [ok |-> FALSE, exc |-> f.exc]

\* the text main tests for braces: strip, the two re.sub, strip
SanitizeCost(text) == Strip(StripFenceClose(StripFenceOpen(Strip(text))))

NoCost == [errors |-> <<>>, nutrition_cost |-> PyNone, metrics |-> FALSE]
CostError(msg) ==
    [errors |-> <<Error("main", msg)>>, nutrition_cost |-> PyNone, metrics |-> FALSE]

\* main, "if result:" and what it guards: the total-recipe metrics or an error
CostSection(res) ==
    IF ~Truthy(res) THEN NoCost
    ELSE LET text == SanitizeCost(res.v)
         IN  IF StartsWithBrace(text) /\ EndsWithBrace(text)
             THEN LET data == JsonLoads(text)
                  IN  IF ~data.ok
                      THEN CostError("Failed to parse nutrition and cost: " \o data.exc)
                      ELSE LET total == FormatKey(data.value.v, "total_cost")
                               price == IF total.ok
                                        THEN FormatKey(total.d, "price_per_serving")
                                        ELSE total
                           IN  IF ~price.ok
                               THEN CostError("Failed to parse nutrition and cost: "
                                              \o price.exc)
                               ELSE [errors |-> <<>>,
                                     nutrition_cost |-> PyDict(price.d),
                                     metrics |-> TRUE]
             ELSE CostError("Unexpected GPT response: " \o Concat(text))

\* the five metrics of the total-recipe container
CostMetrics(d) ==
    ("total.Calories" :> ToText(Get(d, "calories", PyLabel("N/A"))))
      @@ ("total.Protein" :> ToText(Get(d, "protein", PyLabel("N/A"))) \o "g")
      @@ ("total.Fat" :> ToText(Get(d, "fat", PyLabel("N/A"))) \o "g")
      @@ ("total.Total Cost" :> ToText(Get(d, "total_cost", PyLabel("N/A"))))
      @@ ("total.Price/Serving" :> ToText(Get(d, "price_per_serving", PyLabel("N/A"))))

\* the sidebar's quick info and per-serving metrics
SidebarInfo(r, facts) ==
    ("Ready in" :> (IF HasKey(r, "readyInMinutes")
                    THEN StrInt(r["readyInMinutes"]) ELSE "N/A") \o " minutes")
      @@ ("Servings" :> (IF HasKey(r, "servings") THEN StrInt(r["servings"]) ELSE "N/A"))
      @@ ("Price per Serving" :> "$" \o (IF HasKey(r, "pricePerServing")
                                           THEN StrInt(r["pricePerServing"]) ELSE "N/A"))
      @@ (IF facts = <<>> THEN <<>>
          ELSE ("serving.Calories" :> Concat(Get(facts, "Calories", <<"N/A">>)))
                 @@ ("serving.Protein" :> Concat(Get(facts, "Protein", <<"N/A">>)))
                 @@ ("serving.Fat" :> Concat(Get(facts, "Fat", <<"N/A">>))))

EquipmentOrder == <<"bowl", "frying pan">>

\* extract_unique_equipment: the names of all steps' equipment, sorted
extract_unique_equipment(r) ==
    LET steps == Flatten(Get(r, "analyzedInstructions", <<>>))
        names == UNION {{e.name : e \in Range(Get(steps[i], "equipment", <<>>))} :
                        i \in DOMAIN steps}
    IN  SelectSeq(EquipmentOrder, LAMBDA n : n \in names)

Shown(kind) == [fault |-> "", show |-> kind]
Faulted(exc) == [fault |-> exc, show |-> "none"]

\* usage_dict = step_amounts_map[str(step_num)] and the line it gives
UsageLine(usage_dict) ==
    IF ~Truthy(usage_dict) THEN Shown("none")
    ELSE IF usage_dict.t = "obj" THEN Shown("amounts")
    ELSE Faulted("AttributeError")

\* one step of the Recipe Steps tab: the inferred amounts, or the step's own
\* ingredient names; "str(step_num) in step_amounts_map" is evaluated on whatever
\* value json.loads returned
RenderStep(step, map) ==
    LET step_num == Get(step, "number", 0)
        key == StrInt(step_num)
        fallback == IF Len(Get(step, "ingredients", <<>>)) > 0
                    THEN Shown("fallback") ELSE Shown("none")
    IN  IF ~Truthy(map) THEN fallback
        ELSE CASE map.t = "obj" ->
                    IF key \in DOMAIN map.v THEN UsageLine(map.v[key]) ELSE fallback
               [] map.t = "arr" ->
                    IF \E i \in DOMAIN map.v :
                          map.v[i].t = "str" /\ Concat(map.v[i].v) = key
                    THEN Faulted("TypeError") ELSE fallback
               [] map.t = "str" ->
                    IF IsSubstring(Digits(step_num), map.v)
                    THEN Faulted("TypeError") ELSE fallback
               [] OTHER -> Faulted("TypeError")

RECURSIVE RenderSteps(_, _)
\* the loop over the steps: it ends at the first exception
RenderSteps(steps, map) ==
    IF steps = <<>> THEN [fault |-> "", shows |-> <<>>]
    ELSE LET r == RenderStep(Head(steps), map)
         IN  IF r.fault # "" THEN [fault |-> r.fault, shows |-> <<>>]
             ELSE LET rest == RenderSteps(Tail(steps), map)
                  IN  [fault |-> rest.fault, shows |-> <<r.show>> \o rest.shows]

---------------------------------------------------------------------------
(* main, for one click of 'Fetch Recipe'.                                  *)

RecipeUrl == "https://natashaskitchen.com/salmon-cakes-recipe/"

Issued(call, arg) == [call |-> call, ev |-> "issue", arg |-> arg]
Returned(call, text) == [call |-> call, ev |-> "return", arg |-> text]
Raised(call) == [call |-> call, ev |-> "raise", arg |-> <<>>]

\* where main goes once the estimator has returned or failed: on, to line 316
AfterCostRetry(outcome) == IF outcome.raised THEN "cost" ELSE "step"
AfterCost(outcome) == "step"

pureVars == <<normVars, factVars, costVars>>

MainIdle ==
    /\ status_code = 0
    /\ recipe = PyNone
    /\ calls = <<>>
    /\ errors = <<>>
    /\ rendered = {}
    /\ display = <<>>
    /\ original_map = <<>>
    /\ result = Pending
    /\ nutrition_cost = PyNone
    /\ step_amounts_map = Pending
    /\ step_display = <<>>
    /\ fault = ""

PureIdle ==
    /\ name = <<>>
    /\ norm = <<>>
    /\ renorm = <<>>
    /\ chunks = <<>>
    /\ summary = <<>>
    /\ estimate = <<>>
    /\ formatted = <<>>

Init == pc = "idle" /\ MainIdle /\ nutrition = <<>> /\ PureIdle

\* st.button("Fetch Recipe") is true: fetch_recipe sends its request
ClickFetch ==
    /\ pc = "idle"
    /\ calls' = Append(calls, Issued("fetch", RecipeUrl))
    /\ pc' = "fetch_wait"
    /\ UNCHANGED <<status_code, recipe, errors, rendered, display, nutrition,
                   original_map, result, nutrition_cost, step_amounts_map,
                   step_display, fault, pureVars>>

\* the extraction service answers; "if recipe:" decides whether main goes on
FetchReturn ==
    /\ pc = "fetch_wait"
    /\ \E code \in StatusCodes, absent \in SUBSET Keys,
          s \in 1..MaxServings, i \in DOMAIN InstructionVariants :
          LET r == fetch_recipe(code, MakeRecipe(absent, s, i))
          IN  /\ status_code' = code
              /\ recipe' = r.recipe
              /\ errors' = errors \o r.errors
              /\ pc' = IF Truthy(r.recipe) THEN "sidebar" ELSE "done"
    /\ calls' = Append(calls, Returned("fetch", <<>>))
    /\ UNCHANGED <<rendered, display, nutrition, original_map, result,
                   nutrition_cost, step_amounts_map, step_display, fault, pureVars>>

\* requests.get raises (the service is unreachable): nothing catches it
FetchRaises ==
    /\ pc = "fetch_wait"
    /\ calls' = Append(calls, Raised("fetch"))
    /\ fault' = "ConnectionError"
    /\ pc' = "fault"
    /\ UNCHANGED <<status_code, recipe, errors, rendered, display, nutrition,
                   original_map, result, nutrition_cost, step_amounts_map,
                   step_display, pureVars>>

\* the sidebar: recipe["image"], the quick info, the per-serving metrics
RenderSidebar ==
    /\ pc = "sidebar"
    /\ IF ~HasKey(recipe.v, "image")
       THEN /\ fault' = "KeyError"
            /\ pc' = "fault"
            /\ UNCHANGED <<rendered, display, nutrition>>
       ELSE LET facts == extract_nutrition_facts(Get(recipe.v, "summary", <<>>))
            IN  /\ nutrition' = facts
                /\ display' = SidebarInfo(recipe.v, facts) @@ display
                /\ rendered' = rendered \cup {"sidebar"}
                       \cup (IF facts # <<>> THEN {"serving_metrics"} ELSE {})
                /\ pc' = "cost"
                /\ UNCHANGED fault
    /\ UNCHANGED <<status_code, recipe, calls, errors, original_map, result,
                   nutrition_cost, step_amounts_map, step_display, pureVars>>

\* "if 'extendedIngredients' in recipe": the estimator sends its request
CostIssue ==
    /\ pc = "cost"
    /\ HasKey(recipe.v, "extendedIngredients")
    /\ LET ingredients_text ==
               JoinWith("; ", Originals(recipe.v["extendedIngredients"]))
           servings == Get(recipe.v, "servings", 1)
       IN  calls' = Append(calls,
                 Issued("cost", [ingredients_text |-> ingredients_text,
                                 servings |-> servings,
                                 prompt |-> calculate_prompt(ingredients_text,
                                                             servings)]))
    /\ original_map' = build_ingredient_original_map(recipe.v["extendedIngredients"])
    /\ pc' = "cost_wait"
    /\ UNCHANGED <<status_code, recipe, errors, rendered, display, nutrition,
                   result, nutrition_cost, step_amounts_map, step_display, fault,
                   pureVars>>

\* no extendedIngredients: no estimate is asked for
CostSkip ==
    /\ pc = "cost"
    /\ ~HasKey(recipe.v, "extendedIngredients")
    /\ pc' = "step"
    /\ UNCHANGED <<status_code, recipe, calls, errors, rendered, display,
                   nutrition, original_map, result, nutrition_cost,
                   step_amounts_map, step_display, fault, pureVars>>

\* the estimator's call ends; main renders the total-recipe metrics or an error
CostReturn ==
    /\ pc = "cost_wait"
    /\ \E outcome \in LlmOutcomes(CostTexts) :
          LET est == calculate_nutrition_and_cost(outcome)
              sec == CostSection(est.result)
          IN  /\ calls' = Append(calls, IF outcome.raised THEN Raised("cost")
                                        ELSE Returned("cost", outcome.text))
              /\ result' = est.result
              /\ errors' = errors \o est.errors \o sec.errors
              /\ nutrition_cost' = sec.nutrition_cost
              /\ rendered' = rendered \cup (IF sec.metrics THEN {"total_metrics"} ELSE {})
              /\ display' = IF sec.metrics
                            THEN CostMetrics(sec.nutrition_cost.v) @@ display
                            ELSE display
              /\ pc' = AfterCost(outcome)
    /\ UNCHANGED <<status_code, recipe, nutrition, original_map,
                   step_amounts_map, step_display, fault, pureVars>>

\* step_amounts_map = None, then the inferencer sends its request
StepIssue ==
    /\ pc = "step"
    /\ step_amounts_map' = PyNone
    /\ calls' = Append(calls, Issued("step", infer_prompt(recipe.v)))
    /\ pc' = "step_wait"
    /\ UNCHANGED <<status_code, recipe, errors, rendered, display, nutrition,
                   original_map, result, nutrition_cost, step_display, fault,
                   pureVars>>

\* the inferencer's call ends
StepReturn ==
    /\ pc = "step_wait"
    /\ \E outcome \in LlmOutcomes(StepTexts) :
          LET inf == infer_step_ingredient_amounts(outcome)
          IN  /\ calls' = Append(calls, IF outcome.raised THEN Raised("step")
                                        ELSE Returned("step", outcome.text))
              /\ step_amounts_map' = inf.map
              /\ errors' = errors \o inf.errors
    /\ pc' = "content"
    /\ UNCHANGED <<status_code, recipe, rendered, display, nutrition,
                   original_map, result, nutrition_cost, step_display, fault,
                   pureVars>>

\* the header, recipe["image"], the summary and the three tabs
RenderContent ==
    /\ pc = "content"
    /\ IF ~HasKey(recipe.v, "image")
       THEN /\ fault' = "KeyError"
            /\ pc' = "fault"
            /\ rendered' = rendered \cup {"header"}
            /\ display' = ("Title" :> Get(recipe.v, "title", "Recipe Title")) @@ display
            /\ UNCHANGED step_display
       ELSE LET instructions == Get(recipe.v, "analyzedInstructions", <<>>)
                steps == RenderSteps(Flatten(instructions), step_amounts_map)
            IN  /\ display' =
                       ("Title" :> Get(recipe.v, "title", "Recipe Title"))
                         @@ ("Equipment" :>
                               (IF extract_unique_equipment(recipe.v) = <<>>
                                THEN "No equipment information available."
                                ELSE JoinWith(", ", extract_unique_equipment(recipe.v))))
                         @@ ("Ingredients" :>
                               (IF HasKey(recipe.v, "extendedIngredients")
                                THEN JoinWith(", ",
                                         Originals(recipe.v["extendedIngredients"]))
                                ELSE "No ingredients information available."))
                         @@ display
                /\ step_display' = steps.shows
                /\ fault' = steps.fault
                /\ rendered' = rendered
                       \cup {"header", "image", "summary", "equipment", "ingredients"}
                       \cup (IF steps.fault = "" THEN {"steps"} ELSE {})
                /\ pc' = IF steps.fault = "" THEN "done" ELSE "fault"
    /\ UNCHANGED <<status_code, recipe, calls, errors, nutrition, original_map,
                   result, nutrition_cost, step_amounts_map, pureVars>>

Next ==
    \/ ClickFetch
    \/ FetchReturn
    \/ FetchRaises
    \/ RenderSidebar
    \/ CostIssue
    \/ CostSkip
    \/ CostReturn
    \/ StepIssue
    \/ StepReturn
    \/ RenderContent

Spec == Init /\ [][Next]_vars

---------------------------------------------------------------------------
(* normalize_ingredient_name on every name of up to MaxLen characters, and *)
(* on its own result.                                                      *)

NameChars == {"a", "B", "-", "!", " ", "\t", "_", "1", "U+0130"}
Names == UNION {[1..n -> NameChars] : n \in 0..MaxLen}

InitNormalize ==
    /\ pc = "normalize"
    /\ name \in Names
    /\ norm = <<>>
    /\ renorm = <<>>
    /\ MainIdle
    /\ nutrition = <<>>
    /\ chunks = <<>> /\ summary = <<>> /\ estimate = <<>> /\ formatted = <<>>

\* the name is normalized, and the result is normalized once more
Normalize ==
    /\ pc = "normalize"
    /\ norm' = normalize_ingredient_name(name)
    /\ renorm' = normalize_ingredient_name(normalize_ingredient_name(name))
    /\ pc' = "normalized"
    /\ UNCHANGED <<name, mainVarsButPc, nutrition, factVars, costVars>>

NextNormalize == Normalize

SpecNormalize == InitNormalize /\ [][NextNormalize]_vars

---------------------------------------------------------------------------
(* extract_nutrition_facts on every summary of up to MaxSpans chunks, each *)
(* a phrase in bold or a plain separator.                                  *)

Phrases == {Calories447, Protein8g, Fat38g, Calories90, Fat2g, FatCalories, Vegan}
ChunkKinds ==
    {[bold |-> TRUE, text |-> p] : p \in Phrases}
      \cup {[bold |-> FALSE, text |-> <<",", " ">>]}
ChunkLists == UNION {[1..n -> ChunkKinds] : n \in 0..MaxSpans}

RECURSIVE SummaryOf(_)
\* the summary text the chunks make
SummaryOf(cs) ==
    IF cs = <<>> THEN <<>>
    ELSE (IF Head(cs).bold THEN Bold(Head(cs).text) ELSE Head(cs).text)
           \o SummaryOf(Tail(cs))

InitFacts ==
    /\ pc = "extract"
    /\ chunks \in ChunkLists
    /\ summary = SummaryOf(chunks)
    /\ MainIdle
    /\ nutrition = <<>>
    /\ name = <<>> /\ norm = <<>> /\ renorm = <<>>
    /\ estimate = <<>> /\ formatted = <<>>

ExtractFacts ==
    /\ pc = "extract"
    /\ nutrition' = extract_nutrition_facts(summary)
    /\ pc' = "extracted"
    /\ UNCHANGED <<mainVarsButPc, normVars, factVars, costVars>>

NextFacts == ExtractFacts

SpecFacts == InitFacts /\ [][NextFacts]_vars

---------------------------------------------------------------------------
(* The cost formatting of main on every parsed estimate whose total_cost   *)
(* and price_per_serving are a number of eighths up to MaxEighths.         *)

Estimate(total, price) ==
    ("calories" :> PyInt(500)) @@ ("protein" :> PyInt(20)) @@ ("fat" :> PyInt(10))
      @@ ("total_cost" :> PyNum(total)) @@ ("price_per_serving" :> PyNum(price))

InitFormat ==
    /\ pc = "format"
    /\ \E total \in 0..MaxEighths, price \in 0..MaxEighths :
          estimate = Estimate(total, price)
    /\ formatted = <<>>
    /\ MainIdle
    /\ nutrition = <<>>
    /\ name = <<>> /\ norm = <<>> /\ renorm = <<>>
    /\ chunks = <<>> /\ summary = <<>>

\* lines 288 to 291 of main, on the dict json.loads returned
FormatEstimate ==
    /\ pc = "format"
    /\ LET total == FormatKey(estimate, "total_cost")
           price == FormatKey(total.d, "price_per_serving")
       IN  formatted' = price.d
    /\ pc' = "formatted"
    /\ UNCHANGED <<mainVarsButPc, nutrition, normVars, factVars, estimate>>

NextFormat == FormatEstimate

SpecFormat == InitFormat /\ [][NextFormat]_vars

---------------------------------------------------------------------------
(* The claims.                                                             *)

IssueCount(c) == Cardinality({i \in DOMAIN calls : calls[i].call = c /\ calls[i].ev = "issue"})
HasEvent(c, ev) == \E i \in DOMAIN calls : calls[i].call = c /\ calls[i].ev = ev
HasError(at) == \E i \in DOMAIN errors : errors[i].at = at
Fetched == recipe.t = "obj" /\ Truthy(recipe)
Ended == pc \in {"done", "fault"}

(* C1: when the extraction service answers a 'Fetch Recipe' click with a   *)
(* status that is not 2xx, fetch_recipe shows its error and returns no     *)
(* recipe, and main ends the request there: the fetch is the only outbound *)
(* call (no cost estimate, no step-amount inference) and no section of the *)
(* page (sidebar, summary, Equipment, Ingredients, Recipe Steps) is        *)
(* rendered.                                                               *)
C1_FetchFailureStopsRequest ==
    (status_code # 0 /\ status_code \notin 200..299) =>
        /\ recipe.t = "null"
        /\ Len(errors) = 1 /\ errors[1].at = "fetch_recipe"
        /\ pc = "done"
        /\ \A i \in DOMAIN calls : calls[i].call = "fetch"
        /\ rendered = {}
        /\ result.t = "pending" /\ step_amounts_map.t = "pending"
        /\ fault = ""

C1_FailedFetchReached ==
    status_code = 404 /\ pc = "done" /\ Len(errors) = 1 /\ Len(calls) = 2

(* C2: for a fetched recipe, a language-model call that raises makes its   *)
(* own component report an error and yield None, and nothing else: a       *)
(* failed estimate does not keep the step-amount call from being issued, a *)
(* failed step-amount call leaves the estimate of a recipe with            *)
(* ingredients issued, and once main has ended the Equipment, Ingredients  *)
(* and Recipe Steps sections are all rendered.                             *)
C2_LlmFailureIsolated ==
    /\ HasEvent("cost", "raise") =>
          /\ result.t = "null"
          /\ HasError("calculate_nutrition_and_cost")
          /\ Ended => IssueCount("step") = 1
    /\ HasEvent("step", "raise") =>
          /\ step_amounts_map.t = "null"
          /\ HasError("infer_step_ingredient_amounts")
          /\ HasKey(recipe.v, "extendedIngredients") => IssueCount("cost") = 1
    /\ ((HasEvent("cost", "raise") \/ HasEvent("step", "raise")) /\ Ended) =>
          {"equipment", "ingredients", "steps"} \subseteq rendered

\* each rendered step shows its own ingredient names, when it has any
AllStepsFallBack ==
    LET steps == Flatten(Get(recipe.v, "analyzedInstructions", <<>>))
    IN  /\ Len(step_display) = Len(steps)
        /\ \A k \in DOMAIN steps :
              step_display[k] = IF Len(Get(steps[k], "ingredients", <<>>)) > 0
                                THEN "fallback" ELSE "none"

(* C3: whenever the completion text returned to the Step-Amount Inferencer *)
(* is, once sanitized, not a well-formed JSON object (another JSON value,  *)
(* text that is no JSON, or nothing), a parse failure is reported, the     *)
(* step-amount map is None, no uncaught fault occurs, and every step of    *)
(* the finished Recipe Steps section shows its own ingredient names when   *)
(* it has any.                                                             *)
C3_NonObjectIsParseFailure ==
    \A i \in DOMAIN calls :
        (calls[i].call = "step" /\ calls[i].ev = "return") =>
            LET data == JsonLoads(SanitizeStep(calls[i].arg))
                wellFormed == data.ok /\ data.value.t = "obj"
            IN  ~wellFormed =>
                    /\ HasError("infer_step_ingredient_amounts")
                    /\ step_amounts_map.t = "null"
                    /\ fault = ""
                    /\ pc = "done" => AllStepsFallBack

(* C4: whenever the estimator's call returns a text whose fence-stripped,  *)
(* trimmed form is empty, does not both start with "{" and end with "}",   *)
(* or does not parse as JSON, main shows an error for the cost section and *)
(* renders none of the total-recipe metrics.                               *)
C4_MalformedCostShowsError ==
    \A i \in DOMAIN calls :
        (calls[i].call = "cost" /\ calls[i].ev = "return") =>
            LET text == SanitizeCost(calls[i].arg)
                malformed == \/ text = <<>>
                             \/ ~(StartsWithBrace(text) /\ EndsWithBrace(text))
                             \/ ~JsonLoads(text).ok
            IN  malformed => (HasError("main") /\ "total_metrics" \notin rendered)

CallRank(c) == CASE c = "fetch" -> 1 [] c = "cost" -> 2 [] c = "step" -> 3 [] OTHER -> 4

\* every call is issued after the one before it has returned or raised
CallsInSequence ==
    /\ \A i \in DOMAIN calls :
          IF i % 2 = 1 THEN calls[i].ev = "issue"
          ELSE calls[i].ev \in {"return", "raise"} /\ calls[i].call = calls[i - 1].call
    /\ \A i, j \in DOMAIN calls :
          (i < j /\ calls[i].ev = "issue" /\ calls[j].ev = "issue")
              => CallRank(calls[i].call) < CallRank(calls[j].call)

FactKeys == {"Calories", "Protein", "Fat"}
FactWord(key) ==
    CASE key = "Calories" -> <<"c", "a", "l", "o", "r", "i", "e", "s">>
      [] key = "Protein" -> <<"p", "r", "o", "t", "e", "i", "n">>
      [] key = "Fat" -> <<"f", "a", "t">>

\* the texts of the bold chunks, in document order
BoldTexts ==
    LET bold == SelectSeq(chunks, LAMBDA c : c.bold)
    IN  [i \in DOMAIN bold |-> bold[i].text]

\* the span's text holds the category's word, in any case
MatchesFact(key, text) == IsSubstring(FactWord(key), Lower(text))

\* the one category a span goes to: the first of calories, protein, fat it matches
RoutedTo(key, text) ==
    /\ MatchesFact(key, text)
    /\ key = "Protein" => ~MatchesFact("Calories", text)
    /\ key = "Fat" => ~MatchesFact("Calories", text) /\ ~MatchesFact("Protein", text)

Least(S) == CHOOSE i \in S : \A j \in S : i <= j
Greatest(S) == CHOOSE i \in S : \A j \in S : i >= j

(* C6, as claimed: extract_nutrition_facts takes the bold spans in         *)
(* document order and fills each of Calories, Protein and Fat from the     *)
(* first span that matches the category, later such spans changing         *)
(* nothing; the result has only these keys, and none for a category no     *)
(* span matches.  A span matches the first of calories, protein, fat whose *)
(* word it holds in any case, the order in which the words are tested.     *)
C6_FirstSpanWins ==
    pc = "extracted" =>
        /\ DOMAIN nutrition \subseteq FactKeys
        /\ \A key \in FactKeys :
              LET at == {i \in DOMAIN BoldTexts : RoutedTo(key, BoldTexts[i])}
              IN  IF at = {} THEN key \notin DOMAIN nutrition
                  ELSE /\ key \in DOMAIN nutrition
                       /\ nutrition[key] = parse_nutrition_value(BoldTexts[Least(at)])

(* C6, amended: extract_nutrition_facts takes the bold spans in document   *)
(* order and fills each of Calories, Protein and Fat from the last span    *)
(* that matches the category, a later such span overwriting the value of   *)
(* an earlier one; the result has between 0 and 3 entries, all with these  *)
(* keys, and none for a category no span matches.  A span matches the      *)
(* first of calories, protein, fat whose word it holds in any case.        *)
C6_LastRoutedSpanWins ==
    pc = "extracted" =>
        /\ DOMAIN nutrition \subseteq FactKeys
        /\ \A key \in FactKeys :
              LET at == {i \in DOMAIN BoldTexts : RoutedTo(key, BoldTexts[i])}
              IN  IF at = {} THEN key \notin DOMAIN nutrition
                  ELSE /\ key \in DOMAIN nutrition
                       /\ nutrition[key] = parse_nutrition_value(BoldTexts[Greatest(at)])

C6_LaterSpanOverwrote ==
    /\ pc = "extracted"
    /\ \E i, j \in DOMAIN BoldTexts :
          /\ i < j
          /\ RoutedTo("Calories", BoldTexts[i]) /\ RoutedTo("Calories", BoldTexts[j])
          /\ "Calories" \in DOMAIN nutrition
          /\ nutrition["Calories"] = <<"9", "0">>
          /\ parse_nutrition_value(BoldTexts[i]) = <<"4", "4", "7">>

(* C7: the prompt the estimator sends is built from both the ingredient    *)
(* text and the servings count, so that the same ingredients with another  *)
(* servings count would give another prompt, and for a recipe without a    *)
(* servings field the count passed is 1.                                   *)
C7_ServingsInPrompt ==
    \A i \in DOMAIN calls :
        (calls[i].call = "cost" /\ calls[i].ev = "issue") =>
            LET a == calls[i].arg
            IN  /\ \A other \in 1..(MaxServings + 1) :
                      other # a.servings =>
                          calculate_prompt(a.ingredients_text, other) # a.prompt
                /\ ~HasKey(recipe.v, "servings") => a.servings = 1

(* C8: for a fetched recipe with any of its fields absent, main raises no  *)
(* uncaught KeyError and shows the default of each absent field: "N/A" in  *)
(* the sidebar, the default title, and 1 serving for the estimator.        *)
C8_AbsentFieldsDefaulted ==
    Fetched =>
        /\ fault # "KeyError"
        /\ ("sidebar" \in rendered /\ ~HasKey(recipe.v, "servings"))
              => display["Servings"] = "N/A"
        /\ ("sidebar" \in rendered /\ ~HasKey(recipe.v, "readyInMinutes"))
              => display["Ready in"] = "N/A minutes"
        /\ ("header" \in rendered /\ ~HasKey(recipe.v, "title"))
              => display["Title"] = "Recipe Title"
        /\ \A i \in DOMAIN calls :
              (calls[i].call = "cost" /\ calls[i].ev = "issue"
                 /\ ~HasKey(recipe.v, "servings")) => calls[i].arg.servings = 1

\* lowercase, no hyphen, only word characters and single inner spaces
IsNormalized(s) ==
    /\ \A i \in DOMAIN s :
          /\ s[i] \notin Range(UpperCase) \cup {"U+0130", "-"}
          /\ IsWord(s[i]) \/ s[i] = " "
    /\ \A i \in 1..(Len(s) - 1) : ~(s[i] = " " /\ s[i + 1] = " ")
    /\ s # <<>> => (s[1] # " " /\ s[Len(s)] # " ")

(* C9: normalize_ingredient_name returns, for every name, a lowercase      *)
(* string without hyphens, holding only letters, digits, underscores and   *)
(* single spaces, none at either end; normalizing its result again returns *)
(* it unchanged.                                                           *)
C9_NormalizeIdempotent ==
    pc = "normalized" => (renorm = norm /\ IsNormalized(norm))

CostKeys == {"total_cost", "price_per_serving"}

\* the label "$d.cc" of some cents c that satisfies near(c, e8)
IsLabelOfCents(label, e8, near(_, _)) ==
    \E c \in (12 * e8)..(13 * e8 + 1) :
        near(c, e8) /\ label = PyLabel(DollarText(c))

\* c/100 is e8/8 rounded half up: e8/8 - 0.005 < c/100 <= e8/8 + 0.005
NearHalfUp(c, e8) == 8 * c - 100 * e8 \in -3..4

\* c/100 is the nearest to e8/8, the even one of two equally near
NearHalfEven(c, e8) ==
    /\ 8 * c - 100 * e8 \in -4..4
    /\ 8 * c - 100 * e8 \in {-4, 4} => c % 2 = 0

OthersAsProvided ==
    \A key \in {"calories", "protein", "fat"} : formatted[key] = estimate[key]

(* C10, as claimed: main replaces total_cost and price_per_serving by "$"  *)
(* and the value rounded half up to 2 decimals, so that 12.5 gives         *)
(* "$12.50" and 3.125 gives "$3.13"; calories, protein and fat stay as     *)
(* provided.                                                               *)
C10_HalfUpRounding ==
    pc = "formatted" =>
        /\ \A key \in CostKeys :
              /\ IsLabelOfCents(formatted[key], estimate[key].e8, NearHalfUp)
              /\ estimate[key].e8 = 100 => formatted[key].s = "$12.50"
              /\ estimate[key].e8 = 25 => formatted[key].s = "$3.13"
        /\ OthersAsProvided

(* C10, amended: main replaces total_cost and price_per_serving by "$" and *)
(* the value rounded to exactly 2 decimals, to the nearest cent and, when  *)
(* the value lies exactly between two cents, to the even one, so that 12.5 *)
(* gives "$12.50" and 3.125 gives "$3.12"; calories, protein and fat stay  *)
(* as provided.                                                            *)
C10_HalfEvenRounding ==
    pc = "formatted" =>
        /\ \A key \in CostKeys :
              /\ IsLabelOfCents(formatted[key], estimate[key].e8, NearHalfEven)
              /\ estimate[key].e8 = 100 => formatted[key].s = "$12.50"
              /\ estimate[key].e8 = 25 => formatted[key].s = "$3.12"
        /\ OthersAsProvided

C10_TieRoundedToEven ==
    /\ pc = "formatted"
    /\ estimate["total_cost"].e8 = 100 /\ formatted["total_cost"].s = "$12.50"
    /\ estimate["price_per_serving"].e8 = 25
    /\ formatted["price_per_serving"].s = "$3.12"

====
